---- MODULE Spec2Model ----
\* State-machine model of the class media portal: the credential-resolution
\* modules (cloudinary-config.ts, supabase-config.ts), the student roster and
\* login, and the media store with the admin and student dashboards.
EXTENDS Integers, FiniteSets, Sequences, TLC

\* ---------------------------------------------------------------------------
\* Bounds
\* ---------------------------------------------------------------------------
\* in-flight loadCloudinarySettings calls per module
MaxInFlight == 1
\* roster records ever created
MaxStudents == 2
\* media records ever created
MaxMedia == 2
\* files per submitted batch
MaxBatch == 2
\* undelivered change notifications per channel
MaxNotes == 1
\* StudentDashboard loadMedia calls started by notifications and not yet finished
MaxQueries == 2

\* ---------------------------------------------------------------------------
\* Program constants
\* ---------------------------------------------------------------------------
MAX_FILE_SIZE == 100 * 1024 * 1024

VARIABLES
  supabaseOn,      \* isSupabaseConfigured() && supabase
  env,             \* VITE_CLOUDINARY_CLOUD_NAME / VITE_CLOUDINARY_UPLOAD_PRESET
  settingsRow,     \* remote table settings, row key = 'cloudinary'
  ls,              \* localStorage cloudinary_cloud_name / cloudinary_upload_preset
  cache,           \* cc: cachedConfig (cloudinary-config.ts), sc: cloudinaryCache (supabase-config.ts)
  inflight,        \* per module: loadCloudinarySettings calls awaiting the settings query
  lastSaved,       \* per module: arguments of its saveCloudinarySettings call, if that is the latest save
  lastCfgOp,       \* the last settings operation and what it observed / returned
  disconnected,    \* handleDisconnectCloudinary has completed and no save has run since
  students,        \* roster: table students or localStorage classX_students
  nextStudentId,
  media,           \* media store: table media or localStorage classX_media
  nextMediaId,
  author,          \* media id -> roster record id of the session that created it, 0 = admin dashboard
  approvedIds,     \* media ids a handleApproveMedia call has updated
  adminMedia,      \* AdminDashboard useState media
  adminLoading,    \* an AdminDashboard loadMedia query is awaited (remote mode)
  currentStudent,  \* AuthContext currentStudent
  studentMedia,    \* StudentDashboard useState media
  studentLoading,  \* a StudentDashboard loadMedia query is awaited (remote mode)
  lastOp,          \* the last login or upload submission and its effects, where observed
  isAdminLoggedIn, \* AuthContext isAdminLoggedIn (admin browser session)
  isStudentLoggedIn, \* AuthContext isStudentLoggedIn
  adminMounted,    \* the route /admin/dashboard is shown in the admin session
  studentMounted,  \* the route /student/dashboard is shown in the student session
  subs,            \* channel subscriptions that are subscribed
  notes,           \* per media channel: change notifications sent and not yet delivered
  notified,        \* content of table media when the backend last sent notifications
  studentQueries   \* StudentDashboard loadMedia calls started by a notification: sent or answered

cfgVars == <<env, settingsRow, ls, cache, inflight, lastSaved, lastCfgOp, disconnected>>
appVars == <<students, nextStudentId, media, nextMediaId, author, approvedIds, adminMedia,
             adminLoading, currentStudent, studentMedia, studentLoading, lastOp>>
sessVars == <<isAdminLoggedIn, isStudentLoggedIn, adminMounted, studentMounted>>
pushVars == <<subs, notes, notified, studentQueries>>
vars == <<supabaseOn, cfgVars, appVars, sessVars, pushVars>>

\* a dashboard that renders its handlers for everybody
AdminDashboardRendered_Always == TRUE


\* part_002:568 `if (!isAdminLoggedIn) return null`: the admin handlers are
\* reachable from the rendered dashboard only
AdminDashboardRendered == adminMounted /\ isAdminLoggedIn
\* StudentDashboard.tsx:49-52: without a student session the dashboard
\* navigates to the login page
StudentDashboardRendered == studentMounted /\ isStudentLoggedIn /\ ~currentStudent.isNull

\* ---------------------------------------------------------------------------
\* Credential values
\* ---------------------------------------------------------------------------
NoConfig == [isNull |-> TRUE, cloudName |-> "", uploadPreset |-> ""]
Cfg(c, p) == [isNull |-> FALSE, cloudName |-> c, uploadPreset |-> p]
\* pairs the settings form can submit (both fields non-empty, part_002:526)
FormPairs == {Cfg("c1", "p1"), Cfg("c2", "p2")}
EnvPair == Cfg("cE", "pE")
Modules == {"cc", "sc"}

\* JS truthiness of (x.cloudName && x.uploadPreset)
Complete(x) == x.cloudName # "" /\ x.uploadPreset # ""

NoRow == [exists |-> FALSE, cloud_name |-> "", upload_preset |-> ""]
Row(c, p) == [exists |-> TRUE, cloud_name |-> c, upload_preset |-> p]
NoLocal == [cloudName |-> "", uploadPreset |-> ""]

\* cloudinary-config.ts getLocalConfig
getLocalConfig(store) ==
  IF store.cloudName # "" /\ store.uploadPreset # ""
  THEN Cfg(store.cloudName, store.uploadPreset) ELSE NoConfig

NoCfgOp == [op |-> "none", mod |-> "cc", result |-> NoConfig, queried |-> FALSE,
            saved |-> NoConfig, cacheSeen |-> NoConfig, remoteSeen |-> NoConfig]
CfgOp(o, m, r, q, s, cs, rs) ==
  [op |-> o, mod |-> m, result |-> r, queried |-> q, saved |-> s,
   cacheSeen |-> cs, remoteSeen |-> rs]

\* the pair a response of the settings query carries (none on error / no row)
RespPair(resp) ==
  IF resp.err \/ ~resp.row.exists THEN NoConfig
  ELSE Cfg(resp.row.cloud_name, resp.row.upload_preset)

\* ---------------------------------------------------------------------------
\* loadCloudinarySettings: tiers after the cache
\* ---------------------------------------------------------------------------
\* cloudinary-config.ts lines 59-74: localStorage, then env defaults
ccLocalEnv(store, e) ==
  IF ~getLocalConfig(store).isNull THEN getLocalConfig(store)
  ELSE IF Complete(e) THEN Cfg(e.cloudName, e.uploadPreset)
  ELSE NoConfig

\* supabase-config.ts lines 54-62: localStorage only
scLocal(store) ==
  IF store.cloudName # "" /\ store.uploadPreset # ""
  THEN Cfg(store.cloudName, store.uploadPreset) ELSE NoConfig

AfterRemote(m, store, e) == IF m = "cc" THEN ccLocalEnv(store, e) ELSE scLocal(store)

\* cloudinary-config.ts line 43 / supabase-config.ts line 42: does the response
\* settle the load at the remote tier
RemoteAccepted(m, resp) ==
  IF m = "cc"
  THEN ~resp.err /\ resp.row.exists /\ resp.row.cloud_name # "" /\ resp.row.upload_preset # ""
  ELSE resp.row.exists /\ ~resp.err

\* loadCloudinarySettings, start of the call: cache check, then either the
\* settings query is sent or (backend not configured) the later tiers run
LoadStart(m) ==
  /\ IF ~cache[m].isNull
     THEN /\ lastCfgOp' = CfgOp("loadHit", m, cache[m], FALSE, lastSaved[m], cache[m], NoConfig)
          /\ UNCHANGED <<cache, inflight>>
     ELSE IF supabaseOn
     THEN /\ Cardinality(inflight[m]) < MaxInFlight
          /\ inflight' = [inflight EXCEPT ![m] = @ \cup {[st |-> "sent", row |-> NoRow, err |-> FALSE]}]
          /\ lastCfgOp' = CfgOp("loadSent", m, NoConfig, TRUE, lastSaved[m], NoConfig, NoConfig)
          /\ UNCHANGED cache
     ELSE /\ cache' = [cache EXCEPT ![m] = AfterRemote(m, ls, env)]
          /\ lastCfgOp' = CfgOp("loadSync", m, AfterRemote(m, ls, env), FALSE, lastSaved[m], NoConfig, NoConfig)
          /\ UNCHANGED inflight
  /\ UNCHANGED <<supabaseOn, sessVars, pushVars, env, settingsRow, ls, lastSaved, disconnected, appVars>>

\* the backend answers the settings query: single() (sc) reports an error when
\* there is no row, maybeSingle() (cc) reports no data; either call can fail
LoadServe(m) ==
  \E q \in inflight[m], netErr \in BOOLEAN :
    /\ q.st = "sent"
    /\ LET r == [st |-> "resp",
                 row |-> IF netErr THEN NoRow ELSE settingsRow,
                 err |-> netErr \/ (m = "sc" /\ ~settingsRow.exists)]
       IN inflight' = [inflight EXCEPT ![m] = (@ \ {q}) \cup {r}]
    /\ lastCfgOp' = CfgOp("serve", m, NoConfig, FALSE, NoConfig, NoConfig, NoConfig)
    /\ UNCHANGED <<supabaseOn, sessVars, pushVars, env, settingsRow, ls, cache, lastSaved, disconnected, appVars>>

\* loadCloudinarySettings, continuation after the await
LoadFinish(m) ==
  \E q \in inflight[m] :
    /\ q.st = "resp"
    /\ inflight' = [inflight EXCEPT ![m] = @ \ {q}]
    /\ IF RemoteAccepted(m, q)
       THEN /\ cache' = [cache EXCEPT ![m] = Cfg(q.row.cloud_name, q.row.upload_preset)]
            /\ ls' = IF m = "cc"
                     THEN [cloudName |-> q.row.cloud_name, uploadPreset |-> q.row.upload_preset]
                     ELSE ls
            /\ lastCfgOp' = CfgOp("loadDone", m, Cfg(q.row.cloud_name, q.row.upload_preset),
                                  TRUE, NoConfig, NoConfig, RespPair(q))
       ELSE /\ cache' = IF AfterRemote(m, ls, env).isNull THEN cache
                       ELSE [cache EXCEPT ![m] = AfterRemote(m, ls, env)]
            /\ ls' = ls
            /\ lastCfgOp' = CfgOp("loadDone", m, AfterRemote(m, ls, env),
                                  TRUE, NoConfig, NoConfig, RespPair(q))
    /\ UNCHANGED <<supabaseOn, sessVars, pushVars, env, settingsRow, lastSaved, disconnected, appVars>>

\* cloudinary-config.ts saveCloudinarySettings: cache and localStorage first,
\* then delete + insert of the settings row
ccSave(c, p, delOk, insOk) ==
  LET afterDel == IF delOk THEN NoRow ELSE settingsRow
      inserted == insOk /\ ~afterDel.exists
  IN /\ cache' = [cache EXCEPT !["cc"] = Cfg(c, p)]
     /\ ls' = [cloudName |-> c, uploadPreset |-> p]
     /\ settingsRow' = IF ~supabaseOn THEN settingsRow
                       ELSE IF inserted THEN Row(c, p) ELSE afterDel
     /\ lastSaved' = [m \in Modules |-> IF m = "cc" THEN Cfg(c, p) ELSE NoConfig]
     /\ lastCfgOp' = CfgOp("save", "cc", Cfg(c, p), supabaseOn, NoConfig, NoConfig,
                           IF supabaseOn /\ inserted THEN Cfg(c, p) ELSE NoConfig)
     /\ disconnected' = FALSE
  /\ UNCHANGED <<supabaseOn, sessVars, pushVars, env, inflight, appVars>>

\* supabase-config.ts saveCloudinarySettings (called by handleSaveCloudinary):
\* upsert of the settings row, then cache and localStorage on either path
scSave(c, p, upsertOk) ==
  /\ settingsRow' = IF supabaseOn /\ upsertOk THEN Row(c, p) ELSE settingsRow
  /\ cache' = [cache EXCEPT !["sc"] = Cfg(c, p)]
  /\ ls' = [cloudName |-> c, uploadPreset |-> p]
  /\ lastSaved' = [m \in Modules |-> IF m = "sc" THEN Cfg(c, p) ELSE NoConfig]
  /\ lastCfgOp' = CfgOp("save", "sc", Cfg(c, p), supabaseOn, NoConfig, NoConfig,
                        IF supabaseOn /\ upsertOk THEN Cfg(c, p) ELSE NoConfig)
  /\ disconnected' = FALSE
  /\ UNCHANGED <<supabaseOn, sessVars, pushVars, env, inflight, appVars>>

saveCloudinarySettings(m) ==
  \E x \in FormPairs, a \in BOOLEAN, b \in BOOLEAN :
    IF m = "cc" THEN ccSave(x.cloudName, x.uploadPreset, a, b)
    ELSE a = b /\ scSave(x.cloudName, x.uploadPreset, a)

\* part_002 handleDisconnectCloudinary: settings row deleted, both localStorage
\* keys removed; neither module cache is touched
handleDisconnectCloudinary ==
  \E delOk \in BOOLEAN :
    /\ AdminDashboardRendered
    /\ settingsRow' = IF supabaseOn /\ delOk THEN NoRow ELSE settingsRow
    /\ ls' = NoLocal
    /\ lastCfgOp' = CfgOp("disconnect", "sc", NoConfig, supabaseOn, NoConfig, NoConfig, NoConfig)
    /\ disconnected' = TRUE
    /\ UNCHANGED <<supabaseOn, sessVars, pushVars, env, cache, inflight, lastSaved, appVars>>

\* page load: both modules are evaluated again (module-level lets start null);
\* localStorage and the remote row persist
PageReload ==
  /\ \E m \in Modules : ~cache[m].isNull \/ inflight[m] # {}
  /\ cache' = [m \in Modules |-> NoConfig]
  /\ inflight' = [m \in Modules |-> {}]
  /\ lastSaved' = [m \in Modules |-> NoConfig]
  /\ lastCfgOp' = CfgOp("reload", "cc", NoConfig, FALSE, NoConfig, NoConfig, NoConfig)
  /\ disconnected' = FALSE
  /\ UNCHANGED <<supabaseOn, sessVars, pushVars, env, settingsRow, ls, appVars>>

InitCfgState ==
  /\ settingsRow = NoRow
  /\ ls = NoLocal
  /\ cache = [m \in Modules |-> NoConfig]
  /\ inflight = [m \in Modules |-> {}]
  /\ lastSaved = [m \in Modules |-> NoConfig]
  /\ lastCfgOp = NoCfgOp
  /\ disconnected = FALSE

NoStudent == [isNull |-> TRUE, id |-> 0, studentId |-> "", password |-> ""]
NoOp == [op |-> "none", id |-> 0, sid |-> "", pw |-> "", netErr |-> FALSE, success |-> FALSE,
         files |-> 0, oversized |-> FALSE, cloudCalls |-> 0, dbCalls |-> 0, created |-> {},
         error |-> "", failed |-> FALSE, lsReads |-> 0, lsWrites |-> 0,
         successCount |-> 0, failCount |-> 0, attempts |-> <<>>,
         mime |-> "", endpoint |-> "", flag |-> FALSE, resolved |-> FALSE,
         loading |-> FALSE, uploading |-> FALSE]

\* every handler chooses its store by `if (isSupabaseConfigured() && supabase)`:
\* n calls to the backend in the one branch, n accesses to the localStorage
\* keys classX_students / classX_media in the other
RemoteCalls(n) == IF supabaseOn THEN n ELSE 0
LocalAccess_AnyMode(n) == n
LocalAccess(n) == IF supabaseOn THEN 0 ELSE n

\* the record of a roster, media or load handler run: backend calls, reads and
\* writes of the localStorage keys, whether a backend call failed and the
\* message the handler reports (alert or console.error)
IoOp(name, db, reads, writes, failed, err) ==
  [NoOp EXCEPT !.op = name, !.dbCalls = RemoteCalls(db), !.lsReads = LocalAccess(reads),
               !.lsWrites = LocalAccess(writes), !.failed = failed, !.success = ~failed,
               !.error = IF failed THEN err ELSE ""]

\* channel subscriptions of the two dashboards (part_002:130-141,
\* StudentDashboard.tsx:58-63) and the channels that carry media changes
AdminChannels == {"admin/students_changes", "admin/media_changes"}
StudentChannels == {"student/media_changes"}
MediaChannels == {"admin/media_changes", "student/media_changes"}

\* lastOp after a step: the run's record where the specification observes
\* handler runs, none where it does not
Observe(rec, run) == IF rec THEN run ELSE NoOp

InitAppState ==
  /\ students = {}
  /\ nextStudentId = 1
  /\ media = {}
  /\ nextMediaId = 1
  /\ author = <<>>
  /\ approvedIds = {}
  /\ adminMedia = {}
  /\ adminLoading = FALSE
  /\ currentStudent = NoStudent
  /\ studentMedia = {}
  /\ studentLoading = FALSE
  /\ lastOp = NoOp
  /\ isAdminLoggedIn = FALSE
  /\ isStudentLoggedIn = FALSE
  /\ adminMounted = FALSE
  /\ studentMounted = FALSE
  /\ subs = {}
  /\ notes = [c \in MediaChannels |-> 0]
  /\ notified = {}
  /\ studentQueries = {}

InitSettings ==
  /\ supabaseOn \in BOOLEAN
  /\ env \in {NoLocal, [cloudName |-> EnvPair.cloudName, uploadPreset |-> EnvPair.uploadPreset]}
  /\ InitCfgState
  /\ InitAppState


\* ---------------------------------------------------------------------------
\* Settings claims
\* ---------------------------------------------------------------------------

\* C5: a loadCloudinarySettings call that starts after a completed
\* saveCloudinarySettings(c, p) of the same module (and before a later save)
\* returns exactly (c, p) and sends no query to the settings table.
C5_LoadAfterSaveReturnsSaved ==
  (lastCfgOp.op \in {"loadHit", "loadSent", "loadSync"} /\ ~lastCfgOp.saved.isNull)
    => (lastCfgOp.result = lastCfgOp.saved /\ ~lastCfgOp.queried)

\* the first tier, in the order cache, remote row, localStorage, env, that
\* holds a complete pair
FirstComplete(cacheSeen, remoteSeen, store, e) ==
  IF Complete(cacheSeen) THEN cacheSeen
  ELSE IF Complete(remoteSeen) THEN remoteSeen
  ELSE IF Complete(store) THEN Cfg(store.cloudName, store.uploadPreset)
  ELSE IF Complete(e) THEN Cfg(e.cloudName, e.uploadPreset)
  ELSE NoConfig

\* C7: a finished loadCloudinarySettings call returns the pair of the first
\* tier (cache, remote row, localStorage keys, env defaults) that holds a
\* complete pair, null only when none does, and a non-null result is complete.
C7_TierOrder ==
  lastCfgOp.op \in {"loadHit", "loadSync", "loadDone"} =>
    /\ lastCfgOp.result = FirstComplete(lastCfgOp.cacheSeen, lastCfgOp.remoteSeen, ls, env)
    /\ (~lastCfgOp.result.isNull => Complete(lastCfgOp.result))

\* C8: whenever a module cache is non-null, the two localStorage keys hold the
\* same pair as that cache.
C8_CacheMirrored ==
  \A m \in Modules :
    ~cache[m].isNull => (ls.cloudName = cache[m].cloudName /\ ls.uploadPreset = cache[m].uploadPreset)

\* ---------------------------------------------------------------------------
\* Roster, login and media: values
\* ---------------------------------------------------------------------------
\* studentId values the admin types into the student form (free text,
\* part_002:1046-1053); "admin" and "all" are the strings the media code
\* itself uses for the admin uploader and the everybody audience
StudentIds == {"s1", "admin", "all"}
Passwords == {"p1", "p2"}
\* the one password used where the claims do not depend on it
MediaPasswords == {"p1"}
\* the student ID typed where the specification observes every handler
EnrolledIds == {"s1"}
\* a plain student ID and one with a comma in it
FilterIds == {"s1", "s1,status.eq.pending"}

Student(i, sid, pw) == [isNull |-> FALSE, id |-> i, studentId |-> sid, password |-> pw]
Media(i, target, st, by) == [id |-> i, studentId |-> target, status |-> st, uploadedBy |-> by]

\* a file of a batch: its size and what happens to it when it is attempted
\* (the file host answers ok / not ok, the media insert succeeds / reports an error)
FileSizes == {MAX_FILE_SIZE, MAX_FILE_SIZE + 1}
FileResults == {"ok", "uploadFailed", "insertFailed"}
Files == [size : FileSizes, result : FileResults]
Batches == UNION {[1..n -> Files] : n \in 1..MaxBatch}
\* the batches of one file
OneFileBatches == {files \in Batches : Len(files) = 1}

\* ---------------------------------------------------------------------------
\* Roster
\* ---------------------------------------------------------------------------
\* part_002 handleStudentSubmit, editingStudent = null: insert / append
AddStudent(sids, pws, rec) ==
  \E sid \in sids, pw \in pws, dbOk \in BOOLEAN :
    /\ AdminDashboardRendered
    /\ nextStudentId <= MaxStudents
    /\ supabaseOn \/ dbOk
    /\ IF dbOk
       THEN /\ students' = students \cup {Student(nextStudentId, sid, pw)}
            /\ nextStudentId' = nextStudentId + 1
       ELSE UNCHANGED <<students, nextStudentId>>
    /\ lastOp' = Observe(rec, IoOp("handleStudentSubmit", IF dbOk THEN 2 ELSE 1, 1, 1, ~dbOk,
                                    "Error saving student. Please try again."))
    /\ UNCHANGED <<supabaseOn, sessVars, pushVars, cfgVars, media, nextMediaId, author, approvedIds, adminMedia,
                   adminLoading, currentStudent, studentMedia, studentLoading>>

\* part_002 handleStudentSubmit, editingStudent set: update by id / map
EditStudent(sids, pws, rec) ==
  \E e \in students, sid \in sids, pw \in pws, dbOk \in BOOLEAN :
    /\ AdminDashboardRendered
    /\ supabaseOn \/ dbOk
    /\ students' = IF dbOk
                   THEN {IF s.id = e.id THEN Student(e.id, sid, pw) ELSE s : s \in students}
                   ELSE students
    /\ lastOp' = Observe(rec, IoOp("handleStudentSubmit", IF dbOk THEN 2 ELSE 1, 1, 1, ~dbOk,
                                    "Error saving student. Please try again."))
    /\ UNCHANGED <<supabaseOn, sessVars, pushVars, cfgVars, nextStudentId, media, nextMediaId, author, approvedIds,
                   adminMedia, adminLoading, currentStudent, studentMedia, studentLoading>>

handleStudentSubmit(sids, pws, rec) == AddStudent(sids, pws, rec) \/ EditStudent(sids, pws, rec)

\* part_002 handleDeleteStudent
\* a delete that empties the roster
RosterWithout_All(id) == {}

\* delete().eq('id', id) / students.filter(s => s.id !== id)
RosterWithout(id) == {s \in students : s.id # id}

handleDeleteStudent(rec) ==
  \E e \in students, dbOk \in BOOLEAN :
    /\ AdminDashboardRendered
    /\ supabaseOn \/ dbOk
    /\ students' = IF dbOk THEN RosterWithout(e.id) ELSE students
    /\ lastOp' = Observe(rec, [IoOp("handleDeleteStudent", IF dbOk THEN 2 ELSE 1, 1, 1, ~dbOk,
                                     "Error deleting student")
                                EXCEPT !.id = e.id])
    /\ UNCHANGED <<supabaseOn, sessVars, pushVars, cfgVars, nextStudentId, media, nextMediaId, author, approvedIds,
                   adminMedia, adminLoading, currentStudent, studentMedia, studentLoading>>

\* ---------------------------------------------------------------------------
\* Student visibility
\* ---------------------------------------------------------------------------
\* a student ID that holds a comma (the Student ID field is free text):
\* 's1,status.eq.pending'
IdWithComma == "s1,status.eq.pending"

\* the pieces of an interpolated ${currentStudent.studentId} between the
\* commas, which separate the conditions of the filter text
CommaParts(sid) == IF sid = IdWithComma THEN <<"s1", "status.eq.pending">> ELSE <<sid>>

\* a condition column.eq.value of the filter text
Cond(c, v) == [col |-> c, val |-> v]

\* the condition a piece column.eq.value stands for
ParseCond(part) == IF part = "status.eq.pending" THEN Cond("status", "pending") ELSE Cond("", part)

\* the conditions that follow the first piece of an interpolated ID
RestConds(sid) == {ParseCond(CommaParts(sid)[i]) : i \in 2..Len(CommaParts(sid))}

\* StudentDashboard.tsx:81, the text handed to or():
\*   and(student_id.eq.${id},status.eq.approved),
\*   and(student_id.eq.all,status.eq.approved),uploaded_by.eq.${id}
\* as the backend reads it: the alternatives, each a set of conditions that
\* must all hold
OrAlternatives(sid) ==
  {{Cond("student_id", CommaParts(sid)[1]), Cond("status", "approved")} \cup RestConds(sid),
   {Cond("student_id", "all"), Cond("status", "approved")},
   {Cond("uploaded_by", CommaParts(sid)[1])}}
    \cup {{c} : c \in RestConds(sid)}

\* does row m satisfy the condition
Holds(c, m) ==
  IF c.col = "student_id" THEN m.studentId = c.val
  ELSE IF c.col = "status" THEN m.status = c.val
  ELSE IF c.col = "uploaded_by" THEN m.uploadedBy = c.val
  ELSE FALSE

\* the or() filter without its status conditions
PrimaryQuery_AnyStatus(sid, tbl) ==
  {m \in tbl : m.studentId = sid \/ m.studentId = "all" \/ m.uploadedBy = sid}

\* StudentDashboard loadMedia, remote: the compound or() filter of the query
PrimaryQuery(sid, tbl) ==
  {m \in tbl : \E alt \in OrAlternatives(sid) : \A c \in alt : Holds(c, m)}

\* StudentDashboard loadMedia, fallback query: unfiltered select + filter
ClientFilter(sid, tbl) ==
  {m \in tbl : \/ (m.status = "approved" /\ (m.studentId = sid \/ m.studentId = "all"))
               \/ m.uploadedBy = sid}

\* StudentDashboard loadMedia, localStorage branch
LocalFilter(sid, tbl) ==
  {m \in tbl : \/ (m.status = "approved" /\ (m.studentId = sid \/ m.studentId = "all"))
               \/ m.uploadedBy = sid}

\* status: item.status || 'approved', uploadedBy: item.uploaded_by || 'admin'
MapItem(m) ==
  [m EXCEPT !.status = IF @ = "" THEN "approved" ELSE @,
            !.uploadedBy = IF @ = "" THEN "admin" ELSE @]
MapAll(tbl) == {MapItem(m) : m \in tbl}

\* what a StudentDashboard loadMedia that reads the store now sets as media
VisibleTo(sid, tbl) ==
  IF supabaseOn THEN MapAll(PrimaryQuery(sid, tbl)) ELSE LocalFilter(sid, tbl)

\* loadMedia as called by a handler: the localStorage branch sets the list at
\* once, the remote branch sends the query
StudentListAfterLoad(cs, tbl, old) ==
  IF cs.isNull \/ supabaseOn THEN old ELSE LocalFilter(cs.studentId, tbl)
StudentLoadingAfterLoad(old) == supabaseOn \/ old

\* ---------------------------------------------------------------------------
\* Student login / logout
\* ---------------------------------------------------------------------------
\* the mount effect subscribes only when the backend is configured
\* (part_002:130, StudentDashboard.tsx:57)
\* a cleanup that leaves the channels subscribed
Unsubscribed_Kept(channels) == subs

\* the effect cleanup: subscription.unsubscribe() for each channel
Unsubscribed(channels) == subs \ channels

MountSubs(channels) == IF supabaseOn THEN channels ELSE {}

Matches(sid, pw) == {s \in students : s.studentId = sid /\ s.password = pw}

\* students.find(...): the first match of the stored list; records are
\* appended on creation and edited in place, so list order is id order
FirstMatch(sid, pw) ==
  CHOOSE s \in Matches(sid, pw) : \A t \in Matches(sid, pw) : s.id <= t.id

\* StudentLogin handleSubmit: does the submission find a student
\* remote: .eq(student_id).eq(password).single() errors unless exactly one row
LoginFinds(sid, pw, netErr) ==
  IF supabaseOn THEN ~netErr /\ Cardinality(Matches(sid, pw)) = 1
  ELSE Matches(sid, pw) # {}

\* the value a flag holds after the calls of its setter made by one handler
\* run, in order; before the run it holds its useState value false
FlagAfter(calls) == IF calls = <<>> THEN FALSE ELSE calls[Len(calls)]

\* StudentLogin handleSubmit without setLoading(false) before its early return
LoadingCalls_NoResetOnReturn(path) == IF path = "invalid" THEN <<TRUE>> ELSE <<TRUE, FALSE>>

\* StudentLogin handleSubmit: the setLoading calls on each way through the
\* handler: "invalid" is the early return after no student was found
\* (setLoading(false); return), "found" and "thrown" run to the
\* setLoading(false) that follows the try/catch
LoadingCalls(path) == IF path = "invalid" THEN <<TRUE, FALSE>> ELSE <<TRUE, FALSE>>

\* StudentLogin handleSubmit, then on success studentLogin, navigate and the
\* dashboard mount effect (loadMedia)
StudentLoginSubmit(sids, pws, rec) ==
  \E sid \in sids, pw \in pws, netErr \in BOOLEAN :
    /\ ~studentMounted
    /\ supabaseOn \/ ~netErr
    /\ IF LoginFinds(sid, pw, netErr)
       THEN /\ currentStudent' = FirstMatch(sid, pw)
            /\ isStudentLoggedIn' = TRUE
            /\ studentMounted' = TRUE
            /\ subs' = subs \cup MountSubs(StudentChannels)
            /\ studentMedia' = StudentListAfterLoad(FirstMatch(sid, pw), media, {})
            /\ studentLoading' = supabaseOn
       ELSE UNCHANGED <<currentStudent, isStudentLoggedIn, studentMounted, subs, studentMedia,
                        studentLoading>>
    /\ lastOp' = Observe(rec, [NoOp EXCEPT !.op = "studentLogin", !.sid = sid, !.pw = pw,
                                            !.netErr = netErr,
                                            !.success = LoginFinds(sid, pw, netErr),
                                            !.failed = netErr,
                                            !.dbCalls = RemoteCalls(IF LoginFinds(sid, pw, netErr)
                                                                    THEN 2 ELSE 1),
                                            !.lsReads = LocalAccess(IF LoginFinds(sid, pw, netErr)
                                                                    THEN 2 ELSE 1),
                                            !.error = IF LoginFinds(sid, pw, netErr) THEN ""
                                                      ELSE "Invalid Student ID or Password",
                                            !.loading = FlagAfter(LoadingCalls(
                                                          IF LoginFinds(sid, pw, netErr)
                                                          THEN "found" ELSE "invalid"))])
    /\ UNCHANGED <<supabaseOn, isAdminLoggedIn, adminMounted, notes, notified, studentQueries,
                   cfgVars, students, nextStudentId, media, nextMediaId, author,
                   approvedIds, adminMedia, adminLoading>>

\* StudentLogin handleSubmit when the awaited query or the read of the stored
\* list throws: the catch block sets its message, nobody is logged in by it
StudentLoginThrown(sids, pws) ==
  \E sid \in sids, pw \in pws :
    /\ ~studentMounted
    /\ lastOp' = [NoOp EXCEPT !.op = "studentLogin", !.sid = sid, !.pw = pw, !.failed = TRUE,
                              !.dbCalls = RemoteCalls(1), !.lsReads = LocalAccess(1),
                              !.error = "Login failed. Please try again.",
                              !.loading = FlagAfter(LoadingCalls("thrown"))]
    /\ UNCHANGED <<supabaseOn, sessVars, pushVars, cfgVars, students, nextStudentId, media,
                   nextMediaId, author, approvedIds, adminMedia, adminLoading, currentStudent,
                   studentMedia, studentLoading>>

\* StudentDashboard handleLogout: logout() and navigate away (dashboard unmounts)
StudentLogout ==
  /\ StudentDashboardRendered
  /\ currentStudent' = NoStudent
  /\ isStudentLoggedIn' = FALSE
  /\ studentMounted' = FALSE
  /\ subs' = Unsubscribed(StudentChannels)
  /\ studentQueries' = {}
  /\ studentMedia' = {}
  /\ studentLoading' = FALSE
  /\ lastOp' = NoOp
  /\ UNCHANGED <<supabaseOn, isAdminLoggedIn, adminMounted, notes, notified, cfgVars, students, nextStudentId, media, nextMediaId, author,
                 approvedIds, adminMedia, adminLoading>>

InitApp ==
  /\ supabaseOn \in BOOLEAN
  /\ env = NoLocal
  /\ InitCfgState
  /\ InitAppState


\* C4: a student login submission that the backend answers succeeds if and only
\* if the submitted student ID and password both equal the studentId and
\* password of some stored student record, in remote and in local mode, also
\* for rosters with repeated studentId values.
C4_LoginIffMatch ==
  (lastOp.op = "studentLogin" /\ ~lastOp.netErr) =>
    (lastOp.success <=>
       \E s \in students : s.studentId = lastOp.sid /\ s.password = lastOp.pw)

\* ---------------------------------------------------------------------------
\* Media: admin dashboard
\* ---------------------------------------------------------------------------
\* AdminDashboard loadMedia as called by a handler or effect: the localStorage
\* branch sets the list at once, the remote branch sends the query and sets
\* the list when the answer arrives (AdminLoadDone)
AdminListAfterLoad(tbl, old) == IF supabaseOn THEN old ELSE MapAll(tbl)
AdminLoadingAfterLoad(old) == supabaseOn \/ old

\* files of a batch by outcome
Oversized(files) == \E i \in DOMAIN files : files[i].size > MAX_FILE_SIZE

\* a check of the cloud name alone
HelperConfigured_NameOnly(config) == config.cloudName # ""

\* the check of every helper before its request:
\* !config.cloudName || !config.uploadPreset throws 'not configured'
HelperConfigured(config) == config.cloudName # "" /\ config.uploadPreset # ""

\* the counters of an upload loop before its first iteration
NoRun(files) == [successCount |-> 0, failCount |-> 0, cloudCalls |-> 0, inserts |-> 0,
                 attempts |-> [i \in 1..Len(files) |-> 0]]

\* an iteration whose catch block does not count the failure
AttemptFile_SilentFailure(f, i, sends, run) ==
  [run EXCEPT !.attempts[i] = @ + 1, !.cloudCalls = @ + (IF sends THEN 1 ELSE 0),
              !.inserts = @ + (IF sends /\ f.result = "ok" THEN 1 ELSE 0),
              !.successCount = @ + (IF sends /\ f.result = "ok" THEN 1 ELSE 0)]

\* one iteration of the for loop of handleMediaSubmit (part_002:374-440) and
\* of handleUploadSubmit (StudentDashboard:190-240): uploadToCloudinary(file),
\* then the insert or the localStorage append, then successCount++; a throw
\* or an insert error counts the file as failed and the loop goes on.
\* sends: uploadToCloudinary found a complete pair and sent its request
\* (otherwise it throws before the request)
AttemptFile(f, i, sends, run) ==
  [run EXCEPT !.attempts[i] = @ + 1, !.cloudCalls = @ + (IF sends THEN 1 ELSE 0),
              !.inserts = @ + (IF sends /\ f.result # "uploadFailed" THEN 1 ELSE 0),
              !.successCount = @ + (IF sends /\ f.result = "ok" THEN 1 ELSE 0),
              !.failCount = @ + (IF sends /\ f.result = "ok" THEN 0 ELSE 1)]

\* the for loop from file i on
RECURSIVE ProcessFiles(_, _, _, _)
ProcessFiles(files, i, sends, run) ==
  IF i > Len(files) THEN run
  ELSE ProcessFiles(files, i + 1, sends, AttemptFile(files[i], i, sends, run))

\* the pairs a credential resolution can yield when a handler calls
\* uploadToCloudinary: none, a cloud name without preset, a complete pair
ResolvedConfigs == {NoConfig, Cfg("c1", ""), Cfg("c1", "p1")}
\* without the backend there is no insert that can report an error
Feasible(files) == supabaseOn \/ \A i \in DOMAIN files : files[i].result # "insertFailed"

\* part_002 handleMediaSubmit: the record saved for an uploaded file
NewAdminMedia(i, target) == Media(i, target, "approved", "admin")

\* a student record saved as already approved
NewStudentMedia_Approved(i, cs) == Media(i, cs.studentId, "approved", cs.studentId)

\* StudentDashboard handleUploadSubmit: the record saved for an uploaded file
NewStudentMedia(i, cs) == Media(i, cs.studentId, "pending", cs.studentId)

\* part_002 handleMediaSubmit: does the batch pass the size check
AdminSizeCheckPasses(files) == ~\E i \in DOMAIN files : files[i].size > MAX_FILE_SIZE

\* StudentDashboard handleUploadSubmit has no size check
StudentSizeCheckPasses(files) == TRUE

\* an upload handler that returns from inside its loop when a file fails
IndicatorCalls_ReturnOnFailure(ran, run) ==
  IF ~ran THEN <<>> ELSE IF run.failCount > 0 THEN <<TRUE>> ELSE <<TRUE, FALSE>>

\* the calls that show and clear the progress indicator in one run of
\* handleMediaSubmit (setUploadProgress({...}) ... setUploadProgress(null)) and
\* of handleUploadSubmit (setUploading(true) ... setUploading(false);
\* setUploadProgress('')): the early returns come before the first call, and
\* every throw and insert error inside the loop is caught per file
IndicatorCalls(ran, run) == IF ran THEN <<TRUE, FALSE>> ELSE <<>>

\* the record of an upload handler run; loads is 1 when the handler ends with
\* loadMedia()
UploadOp(name, files, flag, config, ran, run, loads) ==
  [NoOp EXCEPT !.op = name, !.files = Len(files), !.oversized = Oversized(files),
               !.success = ran,
               !.flag = flag,
               !.resolved = Complete(config),
               !.cloudCalls = run.cloudCalls,
               !.dbCalls = RemoteCalls(run.inserts + loads),
               !.lsReads = LocalAccess(run.successCount + loads),
               !.lsWrites = LocalAccess(run.successCount),
               !.failed = run.inserts > run.successCount,
               !.error = IF run.failCount > 0 THEN "failed to upload" ELSE "",
               !.successCount = run.successCount,
               !.failCount = run.failCount,
               !.attempts = run.attempts,
               !.created = nextMediaId..(nextMediaId + run.successCount - 1),
               !.uploading = FlagAfter(IndicatorCalls(ran, run))]

\* part_002 handleMediaSubmit
handleMediaSubmit(batches, rec) ==
  \E files \in batches, target \in {"all"} \cup {s.studentId : s \in students},
     cloudinaryConnected \in BOOLEAN :
    /\ AdminDashboardRendered
    /\ Feasible(files)
    /\ nextMediaId - 1 + Len(files) <= MaxMedia
    /\ IF cloudinaryConnected /\ AdminSizeCheckPasses(files)
       THEN \E config \in ResolvedConfigs :
            LET run == ProcessFiles(files, 1, HelperConfigured(config), NoRun(files))
                n == run.successCount
                new == {NewAdminMedia(i, target) : i \in nextMediaId..(nextMediaId + n - 1)}
            IN /\ media' = media \cup new
               /\ nextMediaId' = nextMediaId + n
               /\ author' = author \o [i \in 1..n |-> 0]
               /\ adminMedia' = AdminListAfterLoad(media \cup new, adminMedia)
               /\ adminLoading' = AdminLoadingAfterLoad(adminLoading)
               /\ lastOp' = Observe(rec, UploadOp("handleMediaSubmit", files, cloudinaryConnected, config,
                                                       TRUE, run, 1))
       ELSE /\ lastOp' = Observe(rec, UploadOp("handleMediaSubmit", files, cloudinaryConnected, NoConfig,
                                                       FALSE, NoRun(files), 0))
            /\ UNCHANGED <<media, nextMediaId, author, adminMedia, adminLoading>>
    /\ UNCHANGED <<supabaseOn, sessVars, pushVars, cfgVars, students, nextStudentId, approvedIds,
                   currentStudent, studentMedia, studentLoading>>

SetStatus(tbl, id, st) == {IF m.id = id THEN [m EXCEPT !.status = st] ELSE m : m \in tbl}

\* part_002 handleApproveMedia / handleRejectMedia, called from the approvals
\* tab, which lists pendingMedia = media.filter(status === 'pending')
Moderate(st, rec) ==
  \E item \in {m \in adminMedia : m.status = "pending"}, dbOk \in BOOLEAN :
    /\ AdminDashboardRendered
    /\ supabaseOn \/ dbOk
    /\ IF ~dbOk
       THEN UNCHANGED <<media, adminMedia, adminLoading, approvedIds>>
       ELSE /\ media' = IF supabaseOn THEN SetStatus(media, item.id, st)
                        ELSE SetStatus(adminMedia, item.id, st)
            /\ adminMedia' = IF supabaseOn THEN adminMedia
                             ELSE MapAll(SetStatus(adminMedia, item.id, st))
            /\ adminLoading' = AdminLoadingAfterLoad(adminLoading)
            /\ approvedIds' = IF st = "approved" THEN approvedIds \cup {item.id} ELSE approvedIds
    /\ lastOp' = Observe(rec, IoOp(IF st = "approved" THEN "handleApproveMedia"
                                    ELSE "handleRejectMedia",
                                    IF dbOk THEN 2 ELSE 1, 1, 1, ~dbOk,
                                    IF st = "approved" THEN "Failed to approve media"
                                    ELSE "Failed to reject media"))
    /\ UNCHANGED <<supabaseOn, sessVars, pushVars, cfgVars, students, nextStudentId, nextMediaId, author,
                   currentStudent, studentMedia, studentLoading>>

handleApproveMedia(rec) == Moderate("approved", rec)
handleRejectMedia(rec) == Moderate("rejected", rec)

\* part_002 handleDeleteMedia, called from the media tab, which lists
\* approvedMedia = media.filter(status === 'approved')
handleDeleteMedia(rec) ==
  \E item \in {m \in adminMedia : m.status = "approved"}, dbOk \in BOOLEAN :
    /\ AdminDashboardRendered
    /\ supabaseOn \/ dbOk
    /\ IF ~dbOk
       THEN UNCHANGED <<media, adminMedia, adminLoading>>
       ELSE /\ media' = IF supabaseOn THEN {m \in media : m.id # item.id}
                        ELSE {m \in adminMedia : m.id # item.id}
            /\ adminMedia' = IF supabaseOn THEN adminMedia
                             ELSE MapAll({m \in adminMedia : m.id # item.id})
            /\ adminLoading' = AdminLoadingAfterLoad(adminLoading)
    /\ lastOp' = Observe(rec, IoOp("handleDeleteMedia", IF dbOk THEN 2 ELSE 1, 1, 1, ~dbOk,
                                    "Error deleting media"))
    /\ UNCHANGED <<supabaseOn, sessVars, pushVars, cfgVars, students, nextStudentId, nextMediaId, author,
                   approvedIds, currentStudent, studentMedia, studentLoading>>

\* what the media table stores for the columns status / uploaded_by of a row
\* inserted without them: NULL, or the value the record would get from
\* part_002 (the column defaults are not part of the sources)
ColumnDefaults == {[status |-> "", uploadedBy |-> ""], [status |-> "approved", uploadedBy |-> "admin"]}

\* the values of status / uploadedBy a record saved by src/AdminDashboard.tsx
\* can carry: none in localStorage (the Media interface there has neither field)
LegacyFields == IF supabaseOn THEN ColumnDefaults ELSE {[status |-> "", uploadedBy |-> ""]}

\* src/AdminDashboard.tsx handleMediaSubmit (the dashboard without approvals):
\* storage upload and insert of a row without status / uploaded_by, or in
\* local mode [...media, newMedia] written to classX_media; then loadMedia()
AdminDashboardTsx_handleMediaSubmit ==
  \E target \in {s.studentId : s \in students}, ok \in BOOLEAN, d \in LegacyFields :
    /\ AdminDashboardRendered
    /\ nextMediaId <= MaxMedia
    /\ supabaseOn \/ ok
    /\ IF ok
       THEN /\ media' = (IF supabaseOn THEN media ELSE adminMedia)
                          \cup {Media(nextMediaId, target, d.status, d.uploadedBy)}
            /\ nextMediaId' = nextMediaId + 1
            /\ author' = author \o <<0>>
            /\ adminMedia' = IF supabaseOn THEN adminMedia
                             ELSE adminMedia \cup {Media(nextMediaId, target, d.status, d.uploadedBy)}
            /\ adminLoading' = AdminLoadingAfterLoad(adminLoading)
       ELSE UNCHANGED <<media, nextMediaId, author, adminMedia, adminLoading>>
    /\ lastOp' = NoOp
    /\ UNCHANGED <<supabaseOn, sessVars, pushVars, cfgVars, students, nextStudentId, approvedIds,
                   currentStudent, studentMedia, studentLoading>>

\* AdminDashboard loadMedia started by the mount effect or by a media_changes
\* notification
AdminLoadMedia(rec) ==
  /\ AdminDashboardRendered
  /\ IF supabaseOn THEN ~adminLoading ELSE adminMedia # MapAll(media)
  /\ adminMedia' = AdminListAfterLoad(media, adminMedia)
  /\ adminLoading' = AdminLoadingAfterLoad(adminLoading)
  /\ lastOp' = Observe(rec, IoOp("loadMedia", 1, 1, 0, FALSE, ""))
  /\ UNCHANGED <<supabaseOn, sessVars, pushVars, cfgVars, students, nextStudentId, media, nextMediaId, author,
                 approvedIds, currentStudent, studentMedia, studentLoading>>

\* AdminDashboard loadMedia, remote branch: the select is answered and the
\* continuation runs: setMedia(data.map(...)), or on error the list stays
AdminLoadDone(rec) ==
  \E ok \in BOOLEAN :
    /\ adminLoading
    /\ adminLoading' = FALSE
    /\ adminMedia' = IF ok THEN MapAll(media) ELSE adminMedia
    /\ lastOp' = Observe(rec, IoOp("loadMedia", 0, 0, 0, ~ok, "Error loading media:"))
    /\ UNCHANGED <<supabaseOn, sessVars, pushVars, cfgVars, students, nextStudentId, media, nextMediaId, author,
                   approvedIds, currentStudent, studentMedia, studentLoading>>

\* ---------------------------------------------------------------------------
\* Media: student dashboard
\* ---------------------------------------------------------------------------
\* StudentDashboard handleUploadSubmit
handleUploadSubmit(batches, rec) ==
  \E files \in batches, cloudinaryConfigured \in BOOLEAN :
    /\ StudentDashboardRendered
    /\ Feasible(files)
    /\ nextMediaId - 1 + Len(files) <= MaxMedia
    /\ IF cloudinaryConfigured /\ StudentSizeCheckPasses(files)
       THEN \E config \in ResolvedConfigs :
            LET run == ProcessFiles(files, 1, HelperConfigured(config), NoRun(files))
                n == run.successCount
                new == {NewStudentMedia(i, currentStudent) : i \in nextMediaId..(nextMediaId + n - 1)}
            IN /\ media' = media \cup new
               /\ nextMediaId' = nextMediaId + n
               /\ author' = author \o [i \in 1..n |-> currentStudent.id]
               /\ studentMedia' = IF n > 0
                                  THEN StudentListAfterLoad(currentStudent, media \cup new, studentMedia)
                                  ELSE studentMedia
               /\ studentLoading' = IF n > 0 THEN StudentLoadingAfterLoad(studentLoading)
                                    ELSE studentLoading
               /\ lastOp' = Observe(rec, UploadOp("handleUploadSubmit", files, cloudinaryConfigured, config,
                                                       TRUE, run,
                                                       IF n > 0 THEN 1 ELSE 0))
       ELSE /\ lastOp' = Observe(rec, UploadOp("handleUploadSubmit", files, cloudinaryConfigured, NoConfig,
                                                       FALSE, NoRun(files), 0))
            /\ UNCHANGED <<media, nextMediaId, author, studentMedia, studentLoading>>
    /\ UNCHANGED <<supabaseOn, sessVars, pushVars, cfgVars, students, nextStudentId, approvedIds,
                   adminMedia, adminLoading, currentStudent>>

\* StudentDashboard loadMedia started by a media_changes notification or by
\* the mount effect when the dashboard is opened again
StudentLoadMedia(rec) ==
  /\ StudentDashboardRendered
  /\ IF supabaseOn THEN ~studentLoading
     ELSE studentMedia # LocalFilter(currentStudent.studentId, media)
  /\ studentMedia' = StudentListAfterLoad(currentStudent, media, studentMedia)
  /\ studentLoading' = StudentLoadingAfterLoad(studentLoading)
  /\ lastOp' = Observe(rec, IoOp("loadMedia", 1, 1, 0, FALSE, ""))
  /\ UNCHANGED <<supabaseOn, sessVars, pushVars, cfgVars, students, nextStudentId, media, nextMediaId, author,
                 approvedIds, adminMedia, adminLoading, currentStudent>>

\* how a remote loadMedia of the student dashboard can end
LoadPaths == {"primary", "fallback", "failed"}

\* StudentDashboard loadMedia, remote branch: the or() query is answered, or
\* after its error the unfiltered fallback query, or both fail (list stays)
StudentLoadDone(paths, rec) ==
  \E path \in paths :
    /\ studentLoading
    /\ studentLoading' = FALSE
    /\ studentMedia' =
         IF path = "primary" THEN MapAll(PrimaryQuery(currentStudent.studentId, media))
         ELSE IF path = "fallback" THEN MapAll(ClientFilter(currentStudent.studentId, media))
         ELSE studentMedia
    /\ lastOp' = Observe(rec, IoOp("loadMedia", IF path = "primary" THEN 0 ELSE 1, 0, 0,
                                    path # "primary", "Error loading media:"))
    /\ UNCHANGED <<supabaseOn, sessVars, pushVars, cfgVars, students, nextStudentId, media, nextMediaId, author,
                   approvedIds, adminMedia, adminLoading, currentStudent>>

\* ---------------------------------------------------------------------------
\* Admin session, navigation
\* ---------------------------------------------------------------------------
\* what the admin login form can submit
AdminUsers == {"admin", "s1"}
AdminPasswords == {"admin123", "p1"}

\* a comparison of the user name alone
adminLogin_UserOnly(username, password) == username = "admin"

\* AuthContext adminLogin: the comparison with the one admin pair
adminLogin(username, password) == username = "admin" /\ password = "admin123"

\* AdminLogin handleSubmit; on success navigate('/admin/dashboard') and the
\* dashboard mount effects (loadData, subscriptions)
AdminLoginSubmit(rec) ==
  \E username \in AdminUsers, password \in AdminPasswords :
    /\ ~adminMounted
    /\ IF adminLogin(username, password)
       THEN /\ isAdminLoggedIn' = TRUE
            /\ adminMounted' = TRUE
            /\ subs' = subs \cup MountSubs(AdminChannels)
            /\ adminMedia' = AdminListAfterLoad(media, {})
            /\ adminLoading' = supabaseOn
       ELSE UNCHANGED <<isAdminLoggedIn, adminMounted, subs, adminMedia, adminLoading>>
    /\ lastOp' = Observe(rec, [NoOp EXCEPT !.op = "adminLogin", !.sid = username,
                                            !.pw = password,
                                            !.success = adminLogin(username, password),
                                            !.dbCalls = RemoteCalls(IF adminLogin(username, password)
                                                                    THEN 2 ELSE 0),
                                            !.lsReads = LocalAccess(IF adminLogin(username, password)
                                                                    THEN 2 ELSE 0),
                                            !.error = IF adminLogin(username, password) THEN ""
                                                      ELSE "Invalid admin credentials"])
    /\ UNCHANGED <<supabaseOn, cfgVars, isStudentLoggedIn, studentMounted, notes, notified, studentQueries,
                   students, nextStudentId, media, nextMediaId, author, approvedIds,
                   currentStudent, studentMedia, studentLoading>>

\* part_002 handleLogout: logout() and navigate('/'); the effect cleanup
\* unsubscribes both channels
AdminLogout ==
  /\ AdminDashboardRendered
  /\ isAdminLoggedIn' = FALSE
  /\ adminMounted' = FALSE
  /\ subs' = Unsubscribed(AdminChannels)
  /\ adminMedia' = {}
  /\ adminLoading' = FALSE
  /\ lastOp' = NoOp
  /\ UNCHANGED <<supabaseOn, cfgVars, isStudentLoggedIn, studentMounted, notes, notified, studentQueries,
                 students, nextStudentId, media, nextMediaId, author, approvedIds,
                 currentStudent, studentMedia, studentLoading>>

\* the admin leaves /admin/dashboard without logging out: the component
\* unmounts, its effect cleanup runs, its state is dropped
AdminNavigateAway ==
  /\ adminMounted
  /\ adminMounted' = FALSE
  /\ subs' = Unsubscribed(AdminChannels)
  /\ adminMedia' = {}
  /\ adminLoading' = FALSE
  /\ lastOp' = NoOp
  /\ UNCHANGED <<supabaseOn, cfgVars, isAdminLoggedIn, isStudentLoggedIn, studentMounted, notes, notified,
                 studentQueries, students, nextStudentId, media, nextMediaId, author,
                 approvedIds, currentStudent, studentMedia, studentLoading>>

\* the logged-in admin opens /admin/dashboard again: mount effects
AdminNavigateBack ==
  /\ ~adminMounted /\ isAdminLoggedIn
  /\ adminMounted' = TRUE
  /\ subs' = subs \cup MountSubs(AdminChannels)
  /\ adminMedia' = AdminListAfterLoad(media, {})
  /\ adminLoading' = supabaseOn
  /\ lastOp' = NoOp
  /\ UNCHANGED <<supabaseOn, cfgVars, isAdminLoggedIn, isStudentLoggedIn, studentMounted, notes, notified,
                 studentQueries, students, nextStudentId, media, nextMediaId, author,
                 approvedIds, currentStudent, studentMedia, studentLoading>>

\* the student leaves /student/dashboard without logging out
StudentNavigateAway ==
  /\ studentMounted
  /\ studentMounted' = FALSE
  /\ subs' = Unsubscribed(StudentChannels)
  /\ studentQueries' = {}
  /\ studentMedia' = {}
  /\ studentLoading' = FALSE
  /\ lastOp' = NoOp
  /\ UNCHANGED <<supabaseOn, cfgVars, isAdminLoggedIn, isStudentLoggedIn, adminMounted, notes, notified,
                 students, nextStudentId, media, nextMediaId, author, approvedIds,
                 adminMedia, adminLoading, currentStudent>>

\* a mount effect that does not look at the session
StudentGuardPasses_Always == TRUE

\* StudentDashboard.tsx:49 `if (!isStudentLoggedIn || !currentStudent)`: the
\* mount effect goes on to loadMedia and the subscription
StudentGuardPasses == isStudentLoggedIn /\ ~currentStudent.isNull

\* the logged-in student opens /student/dashboard again: mount effects;
\* loadMedia returns at once without a currentStudent
StudentNavigateBack ==
  /\ ~studentMounted /\ StudentGuardPasses
  /\ studentMounted' = TRUE
  /\ subs' = subs \cup MountSubs(StudentChannels)
  /\ studentMedia' = StudentListAfterLoad(currentStudent, media, {})
  /\ studentLoading' = (supabaseOn /\ ~currentStudent.isNull)
  /\ lastOp' = NoOp
  /\ UNCHANGED <<supabaseOn, cfgVars, isAdminLoggedIn, isStudentLoggedIn, adminMounted, notes, notified,
                 studentQueries, students, nextStudentId, media, nextMediaId, author,
                 approvedIds, adminMedia, adminLoading, currentStudent>>

\* /student/dashboard is opened without a student session: the mount effect
\* calls navigate('/student/login') and returns before loadMedia, the
\* component renders null
StudentDashboardRedirect ==
  /\ ~studentMounted /\ ~StudentGuardPasses
  /\ lastOp' = [NoOp EXCEPT !.op = "navigate", !.sid = "/student/login"]
  /\ UNCHANGED <<supabaseOn, cfgVars, sessVars, pushVars, students, nextStudentId, media,
                 nextMediaId, author, approvedIds, adminMedia, adminLoading, currentStudent,
                 studentMedia, studentLoading>>

\* a logout that closes the admin session only
LoggedOut_AdminOnly ==
  [isAdminLoggedIn |-> FALSE, isStudentLoggedIn |-> isStudentLoggedIn,
   currentStudent |-> currentStudent]

\* AuthContext logout: the three values it sets
LoggedOut ==
  [isAdminLoggedIn |-> FALSE, isStudentLoggedIn |-> FALSE, currentStudent |-> NoStudent]

\* handleLogout of the dashboard that is shown, where the admin and the
\* student use the same page (one AuthProvider): logout() and navigate('/');
\* the record keeps which sessions were open
logout ==
  /\ AdminDashboardRendered \/ StudentDashboardRendered
  /\ isAdminLoggedIn' = LoggedOut.isAdminLoggedIn
  /\ isStudentLoggedIn' = LoggedOut.isStudentLoggedIn
  /\ currentStudent' = LoggedOut.currentStudent
  /\ adminMounted' = FALSE
  /\ studentMounted' = FALSE
  /\ subs' = Unsubscribed(AdminChannels \cup StudentChannels)
  /\ studentQueries' = {}
  /\ adminMedia' = {}
  /\ adminLoading' = FALSE
  /\ studentMedia' = {}
  /\ studentLoading' = FALSE
  /\ lastOp' = [NoOp EXCEPT !.op = "logout", !.sid = currentStudent.studentId,
                            !.flag = isAdminLoggedIn]
  /\ UNCHANGED <<supabaseOn, cfgVars, notes, notified, students, nextStudentId, media,
                 nextMediaId, author, approvedIds>>

\* ---------------------------------------------------------------------------
\* Realtime notifications
\* ---------------------------------------------------------------------------
\* the backend publishes a postgres_changes event for table media to every
\* subscribed media_changes channel; notifications of one channel that are
\* still on their way count as one, since the load they start reads the
\* table after the last of them is delivered
EmitNotification ==
  /\ supabaseOn
  /\ media # notified
  /\ notified' = media
  /\ notes' = [c \in MediaChannels |->
                IF c \in subs /\ notes[c] < MaxNotes THEN notes[c] + 1 ELSE notes[c]]
  /\ lastOp' = NoOp
  /\ UNCHANGED <<supabaseOn, cfgVars, sessVars, subs, studentQueries, students, nextStudentId,
                 media, nextMediaId, author, approvedIds, adminMedia, adminLoading,
                 currentStudent, studentMedia, studentLoading>>

\* query slots of the student dashboard not in use
FreeQueryIds == (1..MaxQueries) \ {q.id : q \in studentQueries}

\* a notification reaches the browser: the callback of a subscribed channel
\* calls loadMedia(), which sends its select; a channel that was unsubscribed
\* has no callback
DeliverNotification(c) ==
  /\ notes[c] > 0
  /\ c \in StudentChannels /\ c \in subs => FreeQueryIds # {}
  /\ notes' = [notes EXCEPT ![c] = @ - 1]
  /\ IF c \in subs /\ c \in StudentChannels
     THEN /\ \E i \in FreeQueryIds :
               /\ \A j \in FreeQueryIds : i <= j
               /\ studentQueries' = studentQueries \cup {[id |-> i, served |-> FALSE, rows |-> {}]}
          /\ lastOp' = [NoOp EXCEPT !.op = "loadMedia", !.id = 1]
          /\ UNCHANGED <<adminMedia, adminLoading>>
     ELSE IF c \in subs
     THEN /\ adminMedia' = AdminListAfterLoad(media, adminMedia)
          /\ adminLoading' = AdminLoadingAfterLoad(adminLoading)
          /\ lastOp' = [NoOp EXCEPT !.op = "loadMedia", !.id = 2]
          /\ UNCHANGED studentQueries
     ELSE /\ lastOp' = NoOp
          /\ UNCHANGED <<studentQueries, adminMedia, adminLoading>>
  /\ UNCHANGED <<supabaseOn, cfgVars, sessVars, subs, notified, students, nextStudentId,
                 media, nextMediaId, author, approvedIds, currentStudent, studentMedia,
                 studentLoading>>

\* the backend evaluates the select of a started loadMedia
StudentQueryServe ==
  \E q \in studentQueries :
    /\ ~q.served
    /\ studentQueries' = (studentQueries \ {q}) \cup
           {[q EXCEPT !.served = TRUE, !.rows = PrimaryQuery(currentStudent.studentId, media)]}
    /\ lastOp' = NoOp
    /\ UNCHANGED <<supabaseOn, cfgVars, sessVars, subs, notes, notified, students,
                   nextStudentId, media, nextMediaId, author, approvedIds, adminMedia,
                   adminLoading, currentStudent, studentMedia, studentLoading>>

\* the answer of a started loadMedia arrives and its continuation runs
\* setMedia(data.map(...)); the answers of two loads arrive in either order
StudentQueryFinish ==
  \E q \in studentQueries :
    /\ q.served
    /\ studentQueries' = studentQueries \ {q}
    /\ studentMedia' = MapAll(q.rows)
    /\ lastOp' = NoOp
    /\ UNCHANGED <<supabaseOn, cfgVars, sessVars, subs, notes, notified, students,
                   nextStudentId, media, nextMediaId, author, approvedIds, adminMedia,
                   adminLoading, currentStudent, studentLoading>>

\* ---------------------------------------------------------------------------
\* uploadToCloudinary: the three helpers
\* ---------------------------------------------------------------------------
\* file.type of a selected file: the part before the slash and the rest
\* (the browser gives '' for a file of unknown type)
MimeTypes == {[top |-> "video", sub |-> "mp4"], [top |-> "image", sub |-> "png"],
              [top |-> "", sub |-> ""]}

\* file.type.startsWith('video/')
StartsWithVideo(type) == type.top = "video"

\* cloudinary-config.ts uploadToCloudinary: the path segment of the request
ccEndpoint(type) == IF StartsWithVideo(type) THEN "video" ELSE "image"

\* part_002 uploadToCloudinary: .../${config.cloudName}/auto/upload
AdminEndpoint(type) == "auto"

\* StudentDashboard uploadToCloudinary: .../${config.cloudName}/auto/upload
StudentEndpoint(type) == "auto"

\* cloudinary-config.ts getCloudinaryConfig (sync): cache, localStorage, env
ccGetCloudinaryConfig ==
  IF ~cache["cc"].isNull THEN cache["cc"]
  ELSE IF ~getLocalConfig(ls).isNull THEN getLocalConfig(ls)
  ELSE Cfg(env.cloudName, env.uploadPreset)

\* a helper call with the pair it resolved: the request, or the throw
HelperRun(helper, config, type, endpoint) ==
  [NoOp EXCEPT !.op = "uploadToCloudinary", !.sid = helper, !.mime = type.top,
               !.resolved = Complete(config),
               !.cloudCalls = IF HelperConfigured(config) THEN 1 ELSE 0,
               !.endpoint = IF HelperConfigured(config) THEN endpoint ELSE "",
               !.error = IF HelperConfigured(config) THEN "" ELSE "Cloudinary not configured"]

\* has a loadCloudinarySettings call of module m just returned
LoadReturned(m) == lastCfgOp.mod = m /\ lastCfgOp.op \in {"loadHit", "loadSync", "loadDone"}

\* cloudinary-config.ts uploadToCloudinary after its await of
\* loadCloudinarySettings()
ccUploadToCloudinary ==
  \E type \in MimeTypes :
    /\ LoadReturned("cc")
    /\ lastOp' = HelperRun("cloudinary-config", lastCfgOp.result, type, ccEndpoint(type))
    /\ UNCHANGED <<supabaseOn, sessVars, pushVars, cfgVars, students, nextStudentId, media,
                   nextMediaId, author, approvedIds, adminMedia, adminLoading,
                   currentStudent, studentMedia, studentLoading>>

\* part_002 uploadToCloudinary after its await of getCloudinaryConfig() of
\* supabase-config.ts, which is loadCloudinarySettings() || {'', ''}
AdminUploadToCloudinary ==
  \E type \in MimeTypes :
    /\ LoadReturned("sc")
    /\ lastOp' = HelperRun("AdminDashboard", lastCfgOp.result, type, AdminEndpoint(type))
    /\ UNCHANGED <<supabaseOn, sessVars, pushVars, cfgVars, students, nextStudentId, media,
                   nextMediaId, author, approvedIds, adminMedia, adminLoading,
                   currentStudent, studentMedia, studentLoading>>

\* StudentDashboard uploadToCloudinary: getCloudinaryConfig() of
\* cloudinary-config.ts
StudentUploadToCloudinary ==
  \E type \in MimeTypes :
    /\ lastOp' = HelperRun("StudentDashboard", ccGetCloudinaryConfig, type, StudentEndpoint(type))
    /\ UNCHANGED <<supabaseOn, sessVars, pushVars, cfgVars, students, nextStudentId, media,
                   nextMediaId, author, approvedIds, adminMedia, adminLoading,
                   currentStudent, studentMedia, studentLoading>>

\* the credential modules
NextSettings ==
  \/ AdminLoginSubmit(FALSE)
  \/ \E m \in Modules : LoadStart(m)
  \/ \E m \in Modules : LoadServe(m)
  \/ \E m \in Modules : LoadFinish(m)
  \/ \E m \in Modules : saveCloudinarySettings(m)
  \/ handleDisconnectCloudinary
  \/ PageReload

SpecSettings == InitSettings /\ [][NextSettings]_vars

\* the credential modules and the upload helpers that resolve a pair
NextHelper ==
  \/ \E m \in Modules : LoadStart(m)
  \/ \E m \in Modules : LoadServe(m)
  \/ \E m \in Modules : LoadFinish(m)
  \/ saveCloudinarySettings("sc")
  \/ AdminLoginSubmit(FALSE)
  \/ ccUploadToCloudinary
  \/ AdminUploadToCloudinary
  \/ StudentUploadToCloudinary

SpecHelper == InitSettings /\ [][NextHelper]_vars

\* roster and sessions, with the login submissions observed in lastOp
NextLogin ==
  \/ AdminLoginSubmit(TRUE)
  \/ AdminLogout
  \/ AdminNavigateAway
  \/ AdminNavigateBack
  \/ handleStudentSubmit(StudentIds, Passwords, FALSE)
  \/ handleDeleteStudent(FALSE)
  \/ StudentLoginSubmit(StudentIds, Passwords, TRUE)
  \/ StudentLogout
  \/ StudentNavigateAway
  \/ StudentNavigateBack

SpecLogin == InitApp /\ [][NextLogin]_vars

Next ==
  \/ AdminLoginSubmit(FALSE)
  \/ AddStudent(StudentIds, MediaPasswords, FALSE)
  \/ StudentLoginSubmit(StudentIds, MediaPasswords, FALSE)
  \/ StudentLogout
  \/ handleMediaSubmit(Batches, FALSE)
  \/ handleApproveMedia(FALSE)
  \/ handleRejectMedia(FALSE)
  \/ handleDeleteMedia(FALSE)
  \/ AdminLoadMedia(FALSE)
  \/ AdminLoadDone(FALSE)
  \/ handleUploadSubmit(Batches, FALSE)
  \/ StudentLoadMedia(FALSE)
  \/ StudentLoadDone(LoadPaths, FALSE)

Spec == InitApp /\ [][Next]_vars

\* every roster, media and login handler with its store accesses observed in
\* lastOp
NextStores ==
  \/ AdminLoginSubmit(TRUE)
  \/ handleStudentSubmit(EnrolledIds, MediaPasswords, TRUE)
  \/ handleDeleteStudent(TRUE)
  \/ StudentLoginSubmit(StudentIds, MediaPasswords, TRUE)
  \/ handleMediaSubmit(OneFileBatches, TRUE)
  \/ handleApproveMedia(TRUE)
  \/ handleRejectMedia(TRUE)
  \/ handleDeleteMedia(TRUE)
  \/ AdminLoadDone(TRUE)
  \/ handleUploadSubmit(OneFileBatches, TRUE)
  \/ StudentLoadDone(LoadPaths, TRUE)

SpecStores == InitApp /\ [][NextStores]_vars

\* the student dashboard kept up to date by notifications; every query is
\* answered without error
NextNotify ==
  \/ AdminLoginSubmit(FALSE)
  \/ AddStudent(EnrolledIds, MediaPasswords, FALSE)
  \/ StudentLoginSubmit(StudentIds, MediaPasswords, FALSE)
  \/ handleMediaSubmit(Batches, FALSE)
  \/ AdminLoadDone(FALSE)
  \/ StudentLoadDone({"primary"}, FALSE)
  \/ EmitNotification
  \/ \E c \in MediaChannels : DeliverNotification(c)
  \/ StudentQueryServe
  \/ StudentQueryFinish

\* the backend publishes every change, the network delivers every
\* notification and answers every query
SpecNotify ==
  /\ InitApp
  /\ [][NextNotify]_vars
  /\ WF_vars(EmitNotification)
  /\ \A c \in MediaChannels : WF_vars(DeliverNotification(c))
  /\ WF_vars(StudentQueryServe)
  /\ WF_vars(StudentQueryFinish)
  /\ WF_vars(StudentLoadDone({"primary"}, FALSE))

\* both dashboards mounted and unmounted while the table changes and
\* notifications travel
NextSessions ==
  \/ AdminLoginSubmit(FALSE)
  \/ AdminLogout
  \/ AdminNavigateAway
  \/ AdminNavigateBack
  \/ AddStudent(EnrolledIds, MediaPasswords, FALSE)
  \/ StudentLoginSubmit(StudentIds, MediaPasswords, FALSE)
  \/ StudentLogout
  \/ StudentNavigateAway
  \/ StudentNavigateBack
  \/ handleMediaSubmit(Batches, FALSE)
  \/ AdminLoadDone(FALSE)
  \/ StudentLoadDone(LoadPaths, FALSE)
  \/ EmitNotification
  \/ \E c \in MediaChannels : DeliverNotification(c)
  \/ StudentQueryServe
  \/ StudentQueryFinish

SpecSessions == InitApp /\ [][NextSessions]_vars

\* roster and media handlers, with the runs of handleDeleteStudent observed
\* in lastOp
NextRoster ==
  \/ AdminLoginSubmit(FALSE)
  \/ handleStudentSubmit(EnrolledIds, MediaPasswords, FALSE)
  \/ handleDeleteStudent(TRUE)
  \/ StudentLoginSubmit(StudentIds, MediaPasswords, FALSE)
  \/ handleMediaSubmit(Batches, FALSE)
  \/ handleUploadSubmit(Batches, FALSE)
  \/ AdminLoadDone(FALSE)
  \/ StudentLoadDone(LoadPaths, FALSE)

SpecRoster == InitApp /\ [][NextRoster]_vars

\* the upload and login handlers with their runs observed in lastOp
NextUpload ==
  \/ AdminLoginSubmit(FALSE)
  \/ AddStudent(StudentIds, MediaPasswords, FALSE)
  \/ StudentLoginSubmit(StudentIds, MediaPasswords, TRUE)
  \/ StudentLogout
  \/ handleMediaSubmit(Batches, TRUE)
  \/ handleUploadSubmit(Batches, TRUE)
  \/ AdminLoadDone(FALSE)
  \/ StudentLoadDone(LoadPaths, FALSE)

SpecUpload == InitApp /\ [][NextUpload]_vars

\* every way through the login form's and the upload forms' submit handlers,
\* the ways through a catch block included
NextSubmit ==
  \/ AdminLoginSubmit(FALSE)
  \/ AddStudent(StudentIds, MediaPasswords, FALSE)
  \/ StudentLoginSubmit(StudentIds, MediaPasswords, TRUE)
  \/ StudentLoginThrown(StudentIds, MediaPasswords)
  \/ StudentNavigateAway
  \/ StudentLogout
  \/ handleMediaSubmit(Batches, TRUE)
  \/ handleUploadSubmit(Batches, TRUE)
  \/ AdminLoadDone(FALSE)
  \/ StudentLoadDone(LoadPaths, FALSE)

SpecSubmit == InitApp /\ [][NextSubmit]_vars

\* a store that holds records saved by src/AdminDashboard.tsx next to the
\* records of the dashboards with approvals
NextLegacy ==
  \/ AdminLoginSubmit(FALSE)
  \/ AddStudent(EnrolledIds, MediaPasswords, FALSE)
  \/ AdminDashboardTsx_handleMediaSubmit
  \/ handleMediaSubmit(OneFileBatches, FALSE)
  \/ handleDeleteMedia(FALSE)
  \/ AdminLoadMedia(FALSE)
  \/ AdminLoadDone(FALSE)
  \/ StudentLoginSubmit(StudentIds, MediaPasswords, FALSE)
  \/ StudentLoadMedia(FALSE)
  \/ StudentLoadDone(LoadPaths, FALSE)

SpecLegacy == InitApp /\ [][NextLegacy]_vars

\* the admin and the student on one page: one AuthProvider, one route shown
\* at a time
NextAuth ==
  \/ ~studentMounted /\ AdminLoginSubmit(TRUE)
  \/ ~adminMounted /\ StudentLoginSubmit(StudentIds, MediaPasswords, TRUE)
  \/ logout
  \/ AdminNavigateAway
  \/ StudentNavigateAway
  \/ ~studentMounted /\ AdminNavigateBack
  \/ ~adminMounted /\ StudentNavigateBack
  \/ ~adminMounted /\ StudentDashboardRedirect
  \/ handleStudentSubmit(EnrolledIds, MediaPasswords, FALSE)
  \/ handleMediaSubmit(OneFileBatches, FALSE)
  \/ AdminLoadDone(FALSE)
  \/ StudentLoadDone(LoadPaths, TRUE)

SpecAuth == InitApp /\ [][NextAuth]_vars

\* students whose IDs are plain or hold a comma, their uploads and the three
\* ways loadMedia of the student dashboard selects its rows
NextFilters ==
  \/ AdminLoginSubmit(FALSE)
  \/ AddStudent(FilterIds, MediaPasswords, FALSE)
  \/ StudentLoginSubmit(FilterIds, MediaPasswords, FALSE)
  \/ StudentLogout
  \/ handleMediaSubmit(OneFileBatches, FALSE)
  \/ handleUploadSubmit(OneFileBatches, FALSE)
  \/ handleApproveMedia(FALSE)
  \/ AdminLoadDone(FALSE)
  \/ StudentLoadMedia(FALSE)
  \/ StudentLoadDone(LoadPaths, FALSE)

SpecFilters == InitApp /\ [][NextFilters]_vars

\* ---------------------------------------------------------------------------
\* Media claims
\* ---------------------------------------------------------------------------

\* C1: every item the student dashboard shows to student S is approved and
\* targeted at S or at "all", or is uploaded by S with status pending or
\* rejected, whatever studentId values the admin has created.
C1_ShownOnlyTargetedOrOwnUnapproved ==
  \A m \in studentMedia :
    \/ (m.status = "approved" /\ m.studentId \in {currentStudent.studentId, "all"})
    \/ (m.uploadedBy = currentStudent.studentId /\ m.status \in {"pending", "rejected"})

\* C2: every record created by handleMediaSubmit has status approved and
\* uploader admin at creation, every record created by handleUploadSubmit has
\* status pending and the logged-in student's studentId as uploader, in remote
\* and in local mode.
C2_CreationStatus ==
  /\ lastOp.op = "handleMediaSubmit" =>
       \A i \in lastOp.created :
         \E m \in media : m.id = i /\ m.status = "approved" /\ m.uploadedBy = "admin"
  /\ lastOp.op = "handleUploadSubmit" =>
       \A i \in lastOp.created :
         \E m \in media : /\ m.id = i
                          /\ m.status = "pending"
                          /\ m.uploadedBy = currentStudent.studentId

\* a student upload has created a record next to an admin-created one
C2_Witness ==
  /\ lastOp.op = "handleUploadSubmit"
  /\ lastOp.created # {}
  /\ \E m \in media : author[m.id] = 0 /\ m.id \notin lastOp.created

\* C3: a student-authored item is shown to a student other than its uploader
\* only after handleApproveMedia has been applied to it; a pending or rejected
\* item is shown to its uploader only.  Students are told apart by studentId,
\* the identifier the media record keeps of its uploader.
C3_UnapprovedShownToUploaderOnly ==
  \A m \in studentMedia :
    /\ (author[m.id] # 0 /\ m.uploadedBy # currentStudent.studentId) => m.id \in approvedIds
    /\ m.status \in {"pending", "rejected"} => m.uploadedBy = currentStudent.studentId

\* an approved item of another student is shown while a pending item of
\* another student is kept out of the list
C3_Witness ==
  /\ \E m \in studentMedia : author[m.id] # 0 /\ m.uploadedBy # currentStudent.studentId
  /\ \E m \in media : /\ m.status = "pending"
                      /\ m.uploadedBy # currentStudent.studentId
                      /\ m \notin studentMedia

\* C6: a submitted batch that holds a file larger than 100 MB sends no request
\* to the file host or the backend and creates no media record, from the admin
\* dashboard and from the student dashboard.
C6_OversizedBatchRejected ==
  (lastOp.op \in {"handleMediaSubmit", "handleUploadSubmit"} /\ lastOp.oversized) =>
    (lastOp.cloudCalls = 0 /\ lastOp.dbCalls = 0 /\ lastOp.created = {})

\* a stored item changes status in this step
StatusStepAllowed ==
  \A m \in media : \A n \in media' :
    (m.id = n.id /\ m.status # n.status) =>
      /\ m.status = "pending"
      /\ n.status \in {"approved", "rejected"}
      /\ (handleApproveMedia(FALSE) \/ handleRejectMedia(FALSE))

\* C9: the status of a stored item changes only in a handleApproveMedia or
\* handleRejectMedia step and only from pending (approved and rejected are
\* terminal), and every stored status is pending, approved or rejected.
C9_StatusOnlyFromPending ==
  /\ [][StatusStepAllowed]_vars
  /\ [](\A m \in media : m.status \in {"pending", "approved", "rejected"})

\* C10: an approved student-authored item is in the visible set of the
\* students whose studentId differs from its uploader's.
C10_ApprovedShownToOthers ==
  \A m \in media : \A s \in students :
    (author[m.id] # 0 /\ m.status = "approved" /\ s.studentId # m.uploadedBy)
      => m \in VisibleTo(s.studentId, media)

\* ---------------------------------------------------------------------------
\* Store, session and upload claims
\* ---------------------------------------------------------------------------

\* C11: a roster, media or login handler run makes no backend call when the
\* backend is not configured, never writes the localStorage keys
\* classX_students / classX_media when it is configured, and when one of its
\* backend calls fails it reports an error and touches neither key.
C11_StoreByMode ==
  /\ ~supabaseOn => lastOp.dbCalls = 0
  /\ supabaseOn => lastOp.lsWrites = 0
  /\ lastOp.failed => (lastOp.error # "" /\ lastOp.lsReads = 0 /\ lastOp.lsWrites = 0)

\* with the backend configured a student upload has had an insert fail
C11_Witness ==
  /\ supabaseOn
  /\ lastOp.op = "handleUploadSubmit"
  /\ lastOp.failed
  /\ lastOp.dbCalls > 0

\* C12: in an upload handler run whose batch of N files passed the checks,
\* every file is attempted exactly once, the reported success count plus the
\* reported failure count is N, and the number of media records the run
\* created is the success count.
C12_BatchCounts ==
  (lastOp.op \in {"handleMediaSubmit", "handleUploadSubmit"} /\ lastOp.success) =>
    /\ \A i \in 1..lastOp.files : lastOp.attempts[i] = 1
    /\ lastOp.successCount + lastOp.failCount = lastOp.files
    /\ Cardinality(lastOp.created) = lastOp.successCount
    /\ Cardinality({m \in media : m.id \in lastOp.created}) = lastOp.successCount

\* a batch of two files of which one failed and one was saved
C12_Witness ==
  /\ lastOp.op \in {"handleMediaSubmit", "handleUploadSubmit"}
  /\ lastOp.success
  /\ lastOp.files = 2
  /\ lastOp.successCount = 1
  /\ lastOp.failCount = 1

\* C13: with the backend configured, once table media has stopped changing the
\* list of the student dashboard eventually equals the rows of the table
\* visible to the student and stays equal to them, in whatever order the
\* notifications and the answers of the loads arrive.
C13_ListEventuallyFresh ==
  <>[]((supabaseOn /\ StudentDashboardRendered) =>
         studentMedia = VisibleTo(currentStudent.studentId, media))

\* a step that changes the roster is taken by the admin dashboard
RosterStepAllowed ==
  students' # students =>
    /\ isAdminLoggedIn
    /\ handleStudentSubmit(StudentIds, Passwords, FALSE) \/ handleDeleteStudent(FALSE)

\* C14: every step that creates, edits or deletes a student record is a step
\* of handleStudentSubmit or handleDeleteStudent taken while isAdminLoggedIn
\* is true; no step of a student session or of a logged-out user changes the
\* roster.
C14_RosterOnlyByAdmin == [][RosterStepAllowed]_vars

\* a student is logged in and the roster has had records added and deleted
C14_Witness ==
  /\ students # {}
  /\ nextStudentId > 1 + Cardinality(students)
  /\ ~currentStudent.isNull

\* what the last login submission shows about adminLogin
AdminLoginIffPair ==
  lastOp.op = "adminLogin" =>
    /\ lastOp.success <=> (lastOp.sid = "admin" /\ lastOp.pw = "admin123")
    /\ lastOp.success => isAdminLoggedIn

\* a failed login submission changes no session state and sets the message
FailedLoginStep ==
  (lastOp'.op \in {"adminLogin", "studentLogin"} /\ ~lastOp'.success) =>
    /\ isAdminLoggedIn' = isAdminLoggedIn
    /\ currentStudent' = currentStudent
    /\ lastOp'.op = "adminLogin" => lastOp'.error = "Invalid admin credentials"
    /\ lastOp'.op = "studentLogin" => lastOp'.error = "Invalid Student ID or Password"

C16_EndpointByMime ==
  (lastOp.op = "uploadToCloudinary" /\ lastOp.cloudCalls = 1) =>
    lastOp.endpoint = IF lastOp.mime = "video" THEN "video" ELSE "image"

\* an upload handler run without a complete pair, or with its configured flag
\* false, sends nothing to the file host and creates no record
UnconfiguredUploadStep ==
  (lastOp'.op \in {"handleMediaSubmit", "handleUploadSubmit"} /\
   (~lastOp'.flag \/ ~lastOp'.resolved)) =>
    /\ lastOp'.cloudCalls = 0
    /\ lastOp'.created = {}
    /\ media' = media
    /\ ~lastOp'.flag => ~lastOp'.success
    /\ lastOp'.success => (lastOp'.failCount = lastOp'.files /\ lastOp'.error # "")

\* C17: when the credential resolution of an upload yields no complete pair
\* (cloud name or upload preset missing) no request is sent to the file host
\* and no media record is created: every uploadToCloudinary call of the run
\* fails before its request, and a handler whose configured flag is false
\* stops before its loop.
C17_NoUploadWithoutCredentials == [][UnconfiguredUploadStep]_vars

\* a student upload of one file run with the flag set and no complete pair
\* resolved, while the table holds a record
C17_Witness ==
  /\ lastOp.op = "handleUploadSubmit"
  /\ lastOp.flag
  /\ ~lastOp.resolved
  /\ lastOp.files = 1
  /\ lastOp.failCount = 1
  /\ media # {}

\* every subscription belongs to a rendered dashboard of a configured backend
SubscribedOnlyWhileRendered ==
  \A c \in subs :
    /\ supabaseOn
    /\ c \in AdminChannels => AdminDashboardRendered
    /\ c \in StudentChannels => StudentDashboardRendered

\* a delivered notification starts a load only in a rendered dashboard
ReloadOnlyWhileRendered ==
  /\ (studentQueries' # studentQueries /\ studentQueries' # {}) =>
       (StudentDashboardRendered /\ "student/media_changes" \in subs)
  /\ (lastOp'.op = "loadMedia" /\ lastOp'.id = 2) =>
       (AdminDashboardRendered /\ "admin/media_changes" \in subs)

\* C18: a realtime subscription exists only while its dashboard is mounted
\* with a logged-in session and the backend is configured; after the
\* dashboard is unmounted or its user logs out its channels are unsubscribed
\* and a notification that arrives later starts no load.
C18_SubscriptionsFollowMount ==
  []SubscribedOnlyWhileRendered /\ [][ReloadOnlyWhileRendered]_vars

\* the student has left the dashboard while a notification for its channel is
\* still on its way
C18_Witness ==
  /\ supabaseOn
  /\ ~StudentDashboardRendered
  /\ "student/media_changes" \notin subs
  /\ notes["student/media_changes"] > 0

\* what a handleDeleteStudent step changes
DeleteStudentStep ==
  lastOp'.op = "handleDeleteStudent" =>
    /\ media' = media
    /\ \A s \in students : s.id # lastOp'.id => s \in students'
    /\ students' \subseteq students
    /\ lastOp'.success => ~\E s \in students' : s.id = lastOp'.id
    /\ ~lastOp'.success => students' = students

\* C19: handleDeleteStudent removes the roster records with the given id and
\* no other roster record, and leaves every media record as it was, also the
\* records targeted at or uploaded by the deleted student.
C19_DeleteStudentFrame == [][DeleteStudentStep]_vars

\* a student has been deleted while another student and media records
\* targeted at and uploaded under the deleted student's ID are stored
C19_Witness ==
  /\ lastOp.op = "handleDeleteStudent"
  /\ lastOp.success
  /\ students # {}
  /\ \E m \in media : m.studentId \in EnrolledIds
  /\ \E m \in media : m.uploadedBy \in EnrolledIds

\* a moderation or delete step in local mode touches one stored item
LocalModerationStep ==
  (~supabaseOn /\ (handleApproveMedia(FALSE) \/ handleRejectMedia(FALSE) \/
                   handleDeleteMedia(FALSE))) =>
    Cardinality({m \in media : m \notin media'}) <= 1

\* C20: in local mode a handleApproveMedia, handleRejectMedia or
\* handleDeleteMedia step changes or removes the targeted item only; every
\* other stored item stays as it was, also an item that a student upload
\* added after the admin dashboard last loaded its list.
C20_LocalModerationKeepsOthers == [][LocalModerationStep]_vars

\* ---------------------------------------------------------------------------
\* Settings, visibility and session claims
\* ---------------------------------------------------------------------------

\* C21: after handleDisconnectCloudinary has completed and until the next
\* save, every loadCloudinarySettings call of supabase-config.ts (the call of
\* the admin dashboard's mount effect) that starts and returns returns null.
C21_NullAfterDisconnect ==
  (disconnected /\ lastCfgOp.mod = "sc" /\ lastCfgOp.op \in {"loadHit", "loadSync"})
    => lastCfgOp.result.isNull

\* a saveCloudinarySettings call of cloudinary-config.ts that reports success
\* false: the row is as before, cache and localStorage hold the new pair
FailedSaveStep ==
  (lastCfgOp'.op = "save" /\ lastCfgOp'.mod = "cc" /\ lastCfgOp'.remoteSeen.isNull) =>
    /\ settingsRow' = settingsRow
    /\ cache'["cc"] = lastCfgOp'.result
    /\ ls' = [cloudName |-> lastCfgOp'.result.cloudName,
              uploadPreset |-> lastCfgOp'.result.uploadPreset]

\* C22: when saveCloudinarySettings of cloudinary-config.ts reports success
\* false ('Settings saved locally only'), the remote settings row holds what
\* it held before the call, and the cache and the localStorage keys hold the
\* new pair.
C22_FailedSaveKeepsRow == [][FailedSaveStep]_vars

\* the items the admin dashboard lists in its media tab
\* (approvedMedia = media.filter(m => m.status === 'approved'))
approvedMedia == {m \in adminMedia : m.status = "approved"}

\* C23: when the admin dashboard has loaded the stored list, every item it
\* lists as approved with target student S or 'all' is in the visible set of
\* S on the student dashboard, also for stored records without a status.
C23_ViewsAgreeOnApproved ==
  (AdminDashboardRendered /\ ~adminLoading /\ adminMedia = MapAll(media)) =>
    \A m \in approvedMedia : \A s \in students :
      m.studentId \in {s.studentId, "all"} =>
        \E n \in VisibleTo(s.studentId, media) : n.id = m.id

\* C24: after the settings form has saved the pair (c, p) with
\* saveCloudinarySettings of supabase-config.ts, and until the next save,
\* disconnect or page load, every loadCloudinarySettings call of
\* cloudinary-config.ts that starts and returns, and every getCloudinaryConfig
\* call of cloudinary-config.ts, yields (c, p).
C24_StudentSeesSavedPair ==
  (~lastSaved["sc"].isNull /\ ~disconnected) =>
    /\ (lastCfgOp.mod = "cc" /\ lastCfgOp.op \in {"loadHit", "loadSync"})
         => lastCfgOp.result = lastSaved["sc"]
    /\ ccGetCloudinaryConfig = lastSaved["sc"]

\* C25: in every state of the auth context isStudentLoggedIn is true exactly
\* when currentStudent is not null, and after logout isAdminLoggedIn and
\* isStudentLoggedIn are false and currentStudent is null, whatever logins
\* came before.
C25_AuthContextConsistent ==
  /\ isStudentLoggedIn <=> ~currentStudent.isNull
  /\ lastOp.op = "logout" =>
       (~isAdminLoggedIn /\ ~isStudentLoggedIn /\ currentStudent.isNull)

\* logout was called while an admin and a student session were both open
C25_Witness ==
  /\ lastOp.op = "logout"
  /\ lastOp.flag
  /\ lastOp.sid # ""

\* C26: without a student session (isStudentLoggedIn false or currentStudent
\* null) the student dashboard is not shown (it has navigated to the student
\* login and renders nothing), it displays no media item, no loadMedia read
\* is under way and its channel is not subscribed; this holds after logout
\* and when the dashboard is opened without a session.
C26_NoMediaWithoutStudentSession ==
  (~isStudentLoggedIn \/ currentStudent.isNull) =>
    /\ ~studentMounted
    /\ studentMedia = {}
    /\ ~studentLoading
    /\ studentQueries = {}
    /\ "student/media_changes" \notin subs

\* the dashboard is opened without a session while the store holds an item
\* that an enrolled student is shown after login
C26_Witness ==
  /\ lastOp.op = "navigate"
  /\ ~isStudentLoggedIn
  /\ \E m \in media : \E s \in students : m \in VisibleTo(s.studentId, media)

\* C27: for every enrolled student and every content of the media store, the
\* fallback path of loadMedia (unfiltered select, then the filter in the
\* browser) and its localStorage filter select the rows that the or() filter
\* of the primary query selects.
C27_FiltersAgree ==
  \A s \in students :
    /\ ClientFilter(s.studentId, media) = PrimaryQuery(s.studentId, media)
    /\ LocalFilter(s.studentId, media) = PrimaryQuery(s.studentId, media)

\* C28: every student login submission ends with the loading flag false and
\* with exactly one of two outcomes, a logged-in student session or an error
\* message set and no session; every batch upload submission ends with the
\* uploading/progress indicator cleared, whatever the remote calls did
StudentSession == isStudentLoggedIn /\ ~currentStudent.isNull
ErrorAndNoSession == lastOp.error # "" /\ ~StudentSession
C28_SubmissionsEndClean ==
  /\ lastOp.op = "studentLogin" =>
       /\ ~lastOp.loading
       /\ StudentSession # ErrorAndNoSession
       /\ lastOp.success => StudentSession /\ lastOp.error = ""
       /\ ~lastOp.success => lastOp.error # ""
  /\ lastOp.op \in {"handleMediaSubmit", "handleUploadSubmit"} => ~lastOp.uploading

\* a student's batch upload in which one file was saved and another failed
\* has ended
C28_Witness ==
  /\ lastOp.op = "handleUploadSubmit"
  /\ lastOp.success
  /\ lastOp.failCount > 0
  /\ lastOp.successCount > 0
  /\ ~lastOp.uploading
====
